---- MODULE Spec2Model ----
(***************************************************************************)
(* A model of the Dodo mail client (src/dodo): the tab bar of panels kept  *)
(* by dodo.app.Dodo, the compose panel's editor and sendmail threads, the  *)
(* mail-sync thread, and the navigation filter of the HTML message view.   *)
(*                                                                         *)
(* The Qt tab widget is modelled by what the handlers rely on: a list of   *)
(* widgets, a current index (-1 when the list is empty) and the            *)
(* currentChanged signal, which MainWindow connects to panel_focused.      *)
(* Tab indices are 0-based, as in the source.                              *)
(***************************************************************************)
EXTENDS Integers, Sequences, FiniteSets, TLC

VARIABLES
    tabs,           \* QTabWidget: the panels in tab order (sequence of panel ids)
    cur,            \* QTabWidget.currentIndex(), -1 when there is no tab
    panels,         \* panel id -> [keep_open, dirty, is_open] of every panel created
    panel_history,  \* Dodo.panel_history
    ncompose,       \* number of ComposePanel objects created so far
    init_queries,   \* settings.init_queries
    last,           \* the handler that ran last, with its arguments
    editor_thread,  \* compose n -> ComposePanel.editor_thread is set
    et,             \* compose n -> state of its EditorThread objects and temp file
    sendmail_thread,\* compose n -> ComposePanel.sendmail_thread is set
    sm,             \* compose n -> state of its SendmailThread objects and status
    syncs,          \* sync id -> state of that SyncMailThread
    nav,            \* the navigation / request filter of the message view
    procs,          \* the external commands run so far, each with the thread that ran it
    search,         \* the SearchModel and error label of one search panel
    keys,           \* the key chord state of one panel
    tm              \* the ThreadModel and tree view of one thread panel

vars == <<tabs, cur, panels, panel_history, ncompose, init_queries, last,
          editor_thread, et, sendmail_thread, sm, syncs, nav,
          procs, search, keys, tm>>

dataVars == <<procs, search, keys, tm>>

(***************************************************************************)
(* Bounds and the small sets the inputs are drawn from.                    *)
(***************************************************************************)
MaxTabs == 3        \* no panel is opened beyond this many tabs
MaxCompose == 1     \* compose panels created in one run
MaxSyncs == 2       \* syncs started in one run

Queries == {"q1", "q2"}
ThreadIds == {"t1"}
\* settings.init_queries as the user's config may set it (a list of queries)
InitQueryLists == {<< >>, <<"q1", "q2">>, <<"q1", "q1">>}

ComposeNums == 1..MaxCompose

SearchId(q) == <<"search", q>>
ThreadId(t) == <<"thread", t>>
TagId == <<"tag", "">>
ComposeId(n) == <<"compose", ToString(n)>>
NoWidget == <<"None", "">>
Kind(p) == p[1]

\* Optional[int]=None of close_panel: no index given
None == -1

GuiState == [tabs |-> tabs, cur |-> cur, panels |-> panels,
             panel_history |-> panel_history, ncompose |-> ncompose]

(***************************************************************************)
(* The tab widget and MainWindow.panel_focused                             *)
(***************************************************************************)
num_panels(st) == Len(st.tabs)

widget(st, i) == IF i >= 0 /\ i < Len(st.tabs) THEN st.tabs[i + 1] ELSE NoWidget

indexOf(st, p) ==
    IF \E i \in 1..Len(st.tabs) : st.tabs[i] = p
    THEN (CHOOSE i \in 1..Len(st.tabs) : st.tabs[i] = p) - 1
    ELSE -1

currentWidget(st) == widget(st, st.cur)

\* Panel.refresh and the refresh of each subclass, which ends in it
refresh(st, p) == [st EXCEPT !.panels[p].dirty = FALSE]

panel_focused_without_refresh(st, i) == st

panel_focused(st, i) ==
    LET w == widget(st, i) IN
    IF w # NoWidget /\ st.panels[w].dirty THEN refresh(st, w) ELSE st

\* QTabWidget.setCurrentIndex: currentChanged fires when the index changes
setCurrentIndex(st, i) ==
    IF widget(st, i) = NoWidget \/ i = st.cur THEN st
    ELSE panel_focused([st EXCEPT !.cur = i], i)

setCurrentWidget(st, p) == setCurrentIndex(st, indexOf(st, p))

\* QTabWidget.addTab: the first tab becomes current
addTab(st, p) ==
    LET st1 == [st EXCEPT !.tabs = Append(st.tabs, p)] IN
    IF Len(st.tabs) = 0 THEN panel_focused([st1 EXCEPT !.cur = 0], 0) ELSE st1

RemoveAt(s, i) == [k \in 1..(Len(s) - 1) |-> IF k <= i THEN s[k] ELSE s[k + 1]]

\* QTabWidget.removeTab: removing the current tab selects its right neighbour
\* (the left one when it was last); removing a tab before the current one
\* shifts the current index; both emit currentChanged
removeTab(st, i) ==
    IF widget(st, i) = NoWidget THEN st
    ELSE LET st1 == [st EXCEPT !.tabs = RemoveAt(st.tabs, i)]
             n1 == Len(st1.tabs)
         IN  IF i = st.cur
             THEN IF n1 = 0 THEN [st1 EXCEPT !.cur = -1]
                  ELSE LET j == IF i > n1 - 1 THEN n1 - 1 ELSE i
                       IN  panel_focused([st1 EXCEPT !.cur = j], j)
             ELSE IF i < st.cur
                  THEN panel_focused([st1 EXCEPT !.cur = st.cur - 1], st.cur - 1)
                  ELSE st1

(***************************************************************************)
(* dodo.app.Dodo: the handlers as functions from GUI state to GUI state    *)
(***************************************************************************)
NewPanel(keep, isdirty) == [keep_open |-> keep, dirty |-> isdirty, is_open |-> TRUE]

WithPanel(st, p, rec) ==
    [st EXCEPT !.panels = [x \in (DOMAIN st.panels) \cup {p} |->
                              IF x = p THEN rec ELSE st.panels[x]]]

\* Panel.before_close: always ready to close
before_close(st, p) == [st EXCEPT !.panels[p].is_open = FALSE]

add_panel(st, p, rec) == setCurrentWidget(addTab(WithPanel(st, p, rec), p), p)

next_panel(st) ==
    LET i == st.cur + 1 IN
    IF i < num_panels(st) THEN setCurrentIndex(st, i) ELSE st

previous_panel(st) ==
    LET i == st.cur - 1 IN
    IF i >= 0 THEN setCurrentIndex(st, i) ELSE st

SeqWithout(s, x) == SelectSeq(s, LAMBDA y : y # x)

\* `if not index` is true of None and of 0
close_index(st, index) == IF index = None \/ index = 0 THEN st.cur ELSE index

close_panel_ignoring_keep_open(st, index) ==
    LET idx == close_index(st, index) IN
    IF widget(st, idx) # NoWidget
    THEN removeTab(before_close(st, widget(st, idx)), idx)
    ELSE st

close_panel(st, index) ==
    LET idx == close_index(st, index)
        w   == widget(st, idx)
    IN  IF w # NoWidget /\ ~st.panels[w].keep_open
        THEN LET st1 == before_close(st, w)
                 st2 == [st1 EXCEPT !.panel_history = SeqWithout(st1.panel_history, w)]
                 h   == st2.panel_history
                 st3 == IF Len(h) > 0
                        THEN setCurrentWidget(
                                 [st2 EXCEPT !.panel_history = SubSeq(h, 1, Len(h) - 1)],
                                 h[Len(h)])
                        ELSE st2
             IN  removeTab(st3, idx)
        ELSE st

\* key X: [a.close_panel(i) for i in reversed(range(a.num_panels()))]
RECURSIVE close_from(_, _)
close_from(st, i) ==
    IF i < 0 THEN st ELSE close_from(close_panel(st, i), i - 1)

close_all(st) == close_from(st, num_panels(st) - 1)

\* for i in range(self.num_panels()): the first tab whose panel is in ids
FirstIndex(st, ids) ==
    IF \E i \in 0..(num_panels(st) - 1) : widget(st, i) \in ids
    THEN CHOOSE i \in 0..(num_panels(st) - 1) :
             /\ widget(st, i) \in ids
             /\ \A j \in 0..(i - 1) : widget(st, j) \notin ids
    ELSE -1

open_search_always_new(st, query, keep) ==
    IF query = "" THEN st
    ELSE add_panel(st, SearchId(query), NewPanel(keep, TRUE))

open_search(st, query, keep) ==
    IF query = "" THEN st
    ELSE LET i == FirstIndex(st, {SearchId(query)}) IN
         IF i >= 0 THEN setCurrentIndex(st, i)
         ELSE add_panel(st, SearchId(query), NewPanel(keep, TRUE))

open_thread(st, thread_id) ==
    LET i == FirstIndex(st, {ThreadId(thread_id)}) IN
    IF i >= 0 THEN setCurrentIndex(st, i)
    ELSE add_panel(st, ThreadId(thread_id), NewPanel(FALSE, TRUE))

\* ComposePanel.__init__ ends in self.refresh(), so the panel starts clean
open_compose(st) ==
    LET n == st.ncompose + 1 IN
    add_panel([st EXCEPT !.ncompose = n], ComposeId(n), NewPanel(FALSE, FALSE))

open_tags(st, keep) ==
    LET i == FirstIndex(st, {TagId}) IN
    IF i >= 0
    THEN setCurrentIndex([st EXCEPT !.panels[widget(st, i)].keep_open = keep], i)
    ELSE add_panel(st, TagId, NewPanel(keep, TRUE))

refresh_panels(st) ==
    LET st1 == [st EXCEPT !.panels = [p \in DOMAIN st.panels |->
                    IF indexOf(st, p) >= 0
                    THEN [st.panels[p] EXCEPT !.dirty = TRUE]
                    ELSE st.panels[p]]]
        w == currentWidget(st1)
    IN  IF w # NoWidget THEN refresh(st1, w) ELSE st1

\* update_single_thread: SearchPanel.update_thread marks a search that does
\* not list the thread dirty (or refreshes it when it has the focus),
\* ThreadPanel.update_thread marks the thread's panel dirty when the message
\* is not given or not found, and the current panel is refreshed when dirty.
\* unknown: the queries whose results do not list the thread.
update_single_thread(st, thread_id, msg_ok, unknown, focus) ==
    LET current == currentWidget(st)
        upd(p) ==
            LET d0 == st.panels[p].dirty
                d1 == IF Kind(p) = "search" /\ p[2] \in unknown
                      THEN ~(p = current /\ focus)
                      ELSE IF p = ThreadId(thread_id) /\ ~msg_ok THEN TRUE
                      ELSE d0
            IN  IF p = current /\ d1 THEN FALSE ELSE d1
    IN  [st EXCEPT !.panels = [p \in DOMAIN st.panels |->
            IF indexOf(st, p) >= 0 /\ Kind(p) \in {"search", "thread"}
            THEN [st.panels[p] EXCEPT !.dirty = upd(p)]
            ELSE st.panels[p]]]

\* a panel object that is in no tab and that no thread refers to is gone
Live(st, keepers) ==
    [st EXCEPT !.panels = [p \in {x \in DOMAIN st.panels :
                                     indexOf(st, x) >= 0 \/ x \in keepers} |->
                              st.panels[p]]]

(***************************************************************************)
(* State after Dodo.__init__                                               *)
(***************************************************************************)
EmptyGui == [tabs |-> << >>, cur |-> -1, panels |-> << >>,
             panel_history |-> << >>, ncompose |-> 0]

\* for query in settings.init_queries: self.open_search(query, keep_open=True)
RECURSIVE open_init(_, _)
open_init(st, qs) ==
    IF qs = << >> THEN st
    ELSE open_init(open_search(st, Head(qs), TRUE), Tail(qs))

\* an EditorThread: where its run() is, how many thread objects exist, the
\* temp file, and whether the 'email text saved in' message was shown for it
EtIdle == [pc |-> "none", threads |-> 0, file |-> "none", shown |-> FALSE]
\* a SendmailThread: where its run() is, how many thread objects exist, the
\* panel's status and, until send.done drops the thread, how send_mail_command
\* ended and what run() did after it
SmIdle == [pc |-> "none", threads |-> 0, status |-> "draft", exit |-> "none",
           in_sent_dir |-> FALSE, notmuch_new |-> FALSE, replied |-> FALSE]
NavIdle == [phase |-> "off"]
NoCall == [op |-> "init", index |-> None, key |-> NoWidget,
           existed |-> FALSE, focus_dirty |-> FALSE]

InitGui(qs) ==
    LET st == open_init(EmptyGui, qs) IN
    /\ init_queries = qs
    /\ tabs = st.tabs
    /\ cur = st.cur
    /\ panels = st.panels
    /\ panel_history = st.panel_history
    /\ ncompose = st.ncompose
    /\ last = NoCall

\* the parts of the model a specification does not follow stay as they are here
ProcsOff == [on |-> FALSE, calls |-> {}]
SearchIdle == [phase |-> "off"]
KeysIdle == [phase |-> "off"]
TmIdle == [phase |-> "off"]

\* a command run by a thread, recorded where the commands are followed
Log(p, cmd, thread) ==
    IF p.on THEN [p EXCEPT !.calls = @ \cup {<<cmd, thread>>}] ELSE p

InitThreads ==
    /\ editor_thread = [n \in ComposeNums |-> FALSE]
    /\ et = [n \in ComposeNums |-> EtIdle]
    /\ sendmail_thread = [n \in ComposeNums |-> FALSE]
    /\ sm = [n \in ComposeNums |-> SmIdle]

Init ==
    /\ \E qs \in InitQueryLists : InitGui(qs)
    /\ InitThreads
    /\ syncs = << >>
    /\ nav = NavIdle
    /\ procs = ProcsOff
    /\ search = SearchIdle
    /\ keys = KeysIdle
    /\ tm = TmIdle

(***************************************************************************)
(* The handlers as actions                                                 *)
(***************************************************************************)
\* the compose panels a thread object still refers to
ThreadRefs ==
    {ComposeId(n) : n \in {m \in ComposeNums : et[m].threads > 0 \/ sm[m].threads > 0}}

\* the record of a call: its name and arguments and, for the properties,
\* whether the key of an open_* call was open before it (existed) and whether
\* the panel that a close_panel made current was dirty before it (focus_dirty)
Call(op, index, key, st) ==
    [op |-> op, index |-> index, key |-> key,
     existed |-> indexOf(GuiState, key) >= 0,
     focus_dirty |-> LET w == currentWidget(st) IN
                     /\ op = "close_panel"
                     /\ w # NoWidget
                     /\ w # currentWidget(GuiState)
                     /\ indexOf(GuiState, w) >= 0
                     /\ panels[w].dirty]

SetGui(st0, keepers) ==
    LET st == Live(st0, keepers) IN
    /\ tabs' = st.tabs
    /\ cur' = st.cur
    /\ panels' = st.panels
    /\ panel_history' = st.panel_history
    /\ ncompose' = st.ncompose
    /\ UNCHANGED init_queries

Handler(op, index, key, st) ==
    /\ SetGui(st, ThreadRefs)
    /\ last' = Call(op, index, key, st)

threadVars == <<editor_thread, et, sendmail_thread, sm>>

InTabs(p) == \E i \in 1..Len(tabs) : tabs[i] = p

Opens(p) == indexOf(GuiState, p) >= 0 \/ Len(tabs) < MaxTabs

OpenSearch ==
    /\ \E q \in Queries \cup {""} :
        /\ q = "" \/ Opens(SearchId(q))
        /\ Handler("open_search", None, SearchId(q), open_search(GuiState, q, FALSE))
    /\ UNCHANGED <<threadVars, syncs, nav>>
    /\ UNCHANGED dataVars

OpenThread ==
    /\ \E t \in ThreadIds :
        /\ Opens(ThreadId(t))
        /\ Handler("open_thread", None, ThreadId(t), open_thread(GuiState, t))
    /\ UNCHANGED <<threadVars, syncs, nav>>
    /\ UNCHANGED dataVars

OpenCompose ==
    /\ ncompose < MaxCompose
    /\ Len(tabs) < MaxTabs
    /\ Handler("open_compose", None, ComposeId(ncompose + 1), open_compose(GuiState))
    /\ UNCHANGED <<threadVars, syncs, nav>>
    /\ UNCHANGED dataVars

OpenTags ==
    /\ Opens(TagId)
    /\ \E keep \in BOOLEAN :
        Handler("open_tags", None, TagId, open_tags(GuiState, keep))
    /\ UNCHANGED <<threadVars, syncs, nav>>
    /\ UNCHANGED dataVars

NextPanel ==
    /\ Handler("next_panel", None, NoWidget, next_panel(GuiState))
    /\ UNCHANGED <<threadVars, syncs, nav>>
    /\ UNCHANGED dataVars

PreviousPanel ==
    /\ Handler("previous_panel", None, NoWidget, previous_panel(GuiState))
    /\ UNCHANGED <<threadVars, syncs, nav>>
    /\ UNCHANGED dataVars

\* key x: close_panel(); and close_panel(i) for an index i
ClosePanel ==
    /\ \E index \in {None} \cup (0..Len(tabs)) :
        Handler("close_panel", index, NoWidget, close_panel(GuiState, index))
    /\ UNCHANGED <<threadVars, syncs, nav>>
    /\ UNCHANGED dataVars

CloseAll ==
    /\ Handler("close_all", None, NoWidget, close_all(GuiState))
    /\ UNCHANGED <<threadVars, syncs, nav>>
    /\ UNCHANGED dataVars

RefreshPanels ==
    /\ Handler("refresh_panels", None, NoWidget, refresh_panels(GuiState))
    /\ UNCHANGED <<threadVars, syncs, nav>>
    /\ UNCHANGED dataVars

\* the inputs are drawn among those that can make a difference: the queries
\* of the open search panels, msg_ok when the thread's panel is open, and the
\* keyboard focus when the current panel is a search (the command bar may
\* hold the focus instead)
UpdateSingleThread ==
    /\ \E t \in ThreadIds :
       \E msg_ok \in IF InTabs(ThreadId(t)) THEN BOOLEAN ELSE {TRUE},
          unknown \in SUBSET {q \in Queries : InTabs(SearchId(q))},
          focus \in IF Kind(currentWidget(GuiState)) = "search" THEN BOOLEAN ELSE {FALSE} :
        Handler("update_single_thread", None, NoWidget,
                update_single_thread(GuiState, t, msg_ok, unknown, focus))
    /\ UNCHANGED <<threadVars, syncs, nav>>
    /\ UNCHANGED dataVars

PanelNext ==
    \/ OpenSearch
    \/ OpenThread
    \/ OpenCompose
    \/ OpenTags
    \/ NextPanel
    \/ PreviousPanel
    \/ ClosePanel
    \/ CloseAll
    \/ RefreshPanels
    \/ UpdateSingleThread

Spec == Init /\ [][PanelNext]_vars

(***************************************************************************)
(* dodo.compose: ComposePanel.edit / send and their threads                *)
(***************************************************************************)
compose_current(n) == currentWidget(GuiState) = ComposeId(n)

\* ComposePanel.edit: "only open one editor at a time"
edit_without_guard(has_thread, e) ==
    [thread |-> TRUE, et |-> [e EXCEPT !.pc = "start", !.threads = @ + 1]]

edit(has_thread, e) ==
    IF ~has_thread
    THEN [thread |-> TRUE, et |-> [e EXCEPT !.pc = "start", !.threads = @ + 1]]
    ELSE [thread |-> has_thread, et |-> e]

\* the record of an edit or send call: existed tells whether the panel's
\* thread field was set before the call
ThreadCall(op, n, had_thread) ==
    [op |-> op, index |-> n, key |-> NoWidget,
     existed |-> had_thread, focus_dirty |-> FALSE]

\* key <enter> on the compose panel that has the focus; edit ends with
\* self.refresh() whether or not it started a thread
Edit(n) ==
    /\ compose_current(n)
    /\ LET r == edit(editor_thread[n], et[n]) IN
       /\ editor_thread' = [editor_thread EXCEPT ![n] = r.thread]
       /\ et' = [et EXCEPT ![n] = r.et]
       /\ SetGui(refresh(GuiState, ComposeId(n)),
                 {ComposeId(m) : m \in {k \in ComposeNums :
                      et'[k].threads > 0 \/ sm[k].threads > 0}})
    /\ last' = ThreadCall("edit", n, editor_thread[n])
    /\ UNCHANGED <<sendmail_thread, sm, syncs, nav>>
    /\ UNCHANGED dataVars

\* EditorThread.run up to its read of panel.is_open: the temp file is made and
\* written, the editor command runs and returns, the file is read back, and
\* `if self.panel.is_open:` reads the flag
EditorRun(n) ==
    /\ et[n].pc = "start"
    /\ et' = [et EXCEPT ![n].file = "exists",
                        ![n].pc = IF panels[ComposeId(n)].is_open
                                  THEN "remove" ELSE "finished"]
    /\ UNCHANGED <<tabs, cur, panels, panel_history, ncompose, init_queries, last,
                   editor_thread, sendmail_thread, sm, syncs, nav>>
    /\ UNCHANGED dataVars

\* EditorThread.run: os.remove(file), after which run() returns
EditorRemove(n) ==
    /\ et[n].pc = "remove"
    /\ et' = [et EXCEPT ![n].pc = "finished", ![n].file = "none"]
    /\ UNCHANGED <<tabs, cur, panels, panel_history, ncompose, init_queries, last,
                   editor_thread, sendmail_thread, sm, syncs, nav>>
    /\ UNCHANGED dataVars

\* edit.done, run by the GUI thread for the thread's finished signal
EditDone(n) ==
    /\ et[n].pc = "finished"
    /\ editor_thread' = [editor_thread EXCEPT ![n] = FALSE]
    /\ et' = [et EXCEPT
                 ![n].pc = "none",
                 ![n].threads = IF editor_thread[n] THEN @ - 1 ELSE @,
                 ![n].shown = IF editor_thread[n] /\ ~panels[ComposeId(n)].is_open
                              THEN TRUE ELSE @]
    /\ LET st == setCurrentWidget(refresh(GuiState, ComposeId(n)), ComposeId(n)) IN
       /\ SetGui(st, {ComposeId(m) : m \in {k \in ComposeNums :
                          et'[k].threads > 0 \/ sm[k].threads > 0}})
       /\ last' = ThreadCall("edit.done", n, editor_thread[n])
    /\ UNCHANGED <<sendmail_thread, sm, syncs, nav>>
    /\ UNCHANGED dataVars

\* ComposePanel.send: "only try to send mail once at a time"
send_without_guard(has_thread, s) ==
    [thread |-> TRUE,
     sm |-> [s EXCEPT !.pc = "running", !.threads = @ + 1, !.status = "sending",
                      !.exit = "none", !.in_sent_dir = FALSE,
                      !.notmuch_new = FALSE, !.replied = FALSE]]

send(has_thread, s) ==
    IF ~has_thread
    THEN [thread |-> TRUE,
          sm |-> [s EXCEPT !.pc = "running", !.threads = @ + 1, !.status = "sending",
                           !.exit = "none", !.in_sent_dir = FALSE,
                           !.notmuch_new = FALSE, !.replied = FALSE]]
    ELSE [thread |-> has_thread, sm |-> s]

\* key S on the compose panel that has the focus
Send(n) ==
    /\ compose_current(n)
    /\ LET r == send(sendmail_thread[n], sm[n])
           st == IF ~sendmail_thread[n] THEN refresh(GuiState, ComposeId(n)) ELSE GuiState
       IN
       /\ sendmail_thread' = [sendmail_thread EXCEPT ![n] = r.thread]
       /\ sm' = [sm EXCEPT ![n] = r.sm]
       /\ SetGui(st, {ComposeId(m) : m \in {k \in ComposeNums :
                          et[k].threads > 0 \/ sm'[k].threads > 0}})
       /\ last' = ThreadCall("send", n, sendmail_thread[n])
    /\ UNCHANGED <<editor_thread, et, syncs, nav>>
    /\ UNCHANGED dataVars

\* where SendmailThread.run may leave its try block: "build": an exception
\* before send_mail_command has been waited for; "timeout": wait(30) raises
\* TimeoutExpired; "nonzero": the command exits non-zero; "sent_dir",
\* "notmuch_new", "tag": the command exited 0 and that later step raises;
\* "none": nothing fails
Failures == {"none", "build", "timeout", "nonzero", "sent_dir", "notmuch_new", "tag"}

\* has_sent_dir: sent_dir of the account is not None;
\* reply: mode is reply or replyall and the message replied to has an id
SendmailThread_run_sent_on_any_exit(fail, has_sent_dir, reply) ==
    [status |-> IF fail = "build" THEN "exception"
                ELSE IF fail = "timeout" THEN "timed out" ELSE "sent",
     exit |-> IF fail = "build" THEN "none"
              ELSE IF fail = "timeout" THEN "timeout"
              ELSE IF fail = "nonzero" THEN "nonzero" ELSE "zero",
     in_sent_dir |-> fail \notin {"build", "timeout"} /\ has_sent_dir,
     notmuch_new |-> fail \notin {"build", "timeout"},
     replied |-> fail \notin {"build", "timeout"} /\ reply]

SendmailThread_run(fail, has_sent_dir, reply) ==
    LET zero == fail \notin {"build", "timeout", "nonzero"} IN
    [status |-> IF fail = "timeout" THEN "timed out"
                ELSE IF fail = "nonzero" THEN "error"
                ELSE IF fail = "none" THEN "sent"
                ELSE "exception",
     exit |-> IF fail = "build" THEN "none"
              ELSE IF fail = "timeout" THEN "timeout"
              ELSE IF fail = "nonzero" THEN "nonzero" ELSE "zero",
     in_sent_dir |-> zero /\ has_sent_dir /\ fail # "sent_dir",
     notmuch_new |-> zero /\ fail \notin {"sent_dir", "notmuch_new"},
     replied |-> zero /\ reply /\ fail = "none"]

\* SendmailThread.run, from start to return
SendmailRun(n) ==
    /\ sm[n].pc = "running"
    /\ \E has_sent_dir \in BOOLEAN, reply \in BOOLEAN :
       \E fail \in {f \in Failures : /\ (f = "sent_dir" => has_sent_dir)
                                      /\ (f = "tag" => reply)} :
        LET r == SendmailThread_run(fail, has_sent_dir, reply) IN
        /\ sm' = [sm EXCEPT ![n] = [pc |-> "finished", threads |-> sm[n].threads,
                                    status |-> r.status, exit |-> r.exit,
                                    in_sent_dir |-> r.in_sent_dir,
                                    notmuch_new |-> r.notmuch_new,
                                    replied |-> r.replied]]
        /\ procs' = IF r.exit # "none"
                    THEN Log(procs, "send_mail_command", "SendmailThread") ELSE procs
    /\ UNCHANGED <<tabs, cur, panels, panel_history, ncompose, init_queries, last,
                   editor_thread, et, sendmail_thread, syncs, nav>>
    /\ UNCHANGED <<search, keys, tm>>

\* send.done, run by the GUI thread for the thread's finished signal
SendDone(n) ==
    /\ sm[n].pc = "finished"
    /\ sendmail_thread' = [sendmail_thread EXCEPT ![n] = FALSE]
    /\ sm' = [sm EXCEPT ![n] = [SmIdle EXCEPT
                  !.pc = "done", !.status = sm[n].status,
                  !.threads = sm[n].threads - IF sendmail_thread[n] THEN 1 ELSE 0]]
    /\ LET st == refresh_panels(GuiState) IN
       /\ SetGui(st, {ComposeId(m) : m \in {k \in ComposeNums :
                          et[k].threads > 0 \/ sm'[k].threads > 0}})
       /\ last' = ThreadCall("send.done", n, sendmail_thread[n])
    /\ UNCHANGED <<editor_thread, et, syncs, nav>>
    /\ UNCHANGED dataVars

ComposeNext ==
    \/ OpenCompose
    \/ ClosePanel
    \/ NextPanel
    \/ \E n \in ComposeNums : Edit(n)
    \/ \E n \in ComposeNums : EditorRun(n)
    \/ \E n \in ComposeNums : EditorRemove(n)
    \/ \E n \in ComposeNums : EditDone(n)
    \/ \E n \in ComposeNums : Send(n)
    \/ \E n \in ComposeNums : SendmailRun(n)
    \/ \E n \in ComposeNums : SendDone(n)

\* the window after construction with the one query of settings.init_queries
ComposeInit ==
    /\ InitGui(<<"q1">>)
    /\ InitThreads
    /\ syncs = << >>
    /\ nav = NavIdle
    /\ procs = ProcsOff
    /\ search = SearchIdle
    /\ keys = KeysIdle
    /\ tm = TmIdle

ComposeSpec == ComposeInit /\ [][ComposeNext]_vars

(***************************************************************************)
(* dodo.app: Dodo.sync_mail and SyncMailThread                             *)
(***************************************************************************)
\* the commands SyncMailThread.run runs, each with a blocking subprocess.run
SyncMailThread_run_notmuch_first == <<"notmuch new", "sync_mail_command">>

SyncMailThread_run == <<"sync_mail_command", "notmuch new">>

\* a sync: the commands its thread has finished and the calls its done
\* callback has made, in order, and where it is: "run" (the thread runs),
\* "finished" (run() returned, the finished signal is queued) or "done"
SyncStart == [pc |-> "run", log |-> << >>]

\* Dodo.sync_mail: a new thread with its own done callback, started at once.
\* The ' [syncing]' marker of the window title is not part of the model.
sync_mail(ss) == Append(ss, SyncStart)

\* the timer's timeout or the key bound to sync_mail
SyncMail ==
    /\ Len(syncs) < MaxSyncs
    /\ syncs' = sync_mail(syncs)
    /\ last' = Call("sync_mail", None, NoWidget, GuiState)
    /\ UNCHANGED <<tabs, cur, panels, panel_history, ncompose, init_queries,
                   threadVars, nav>>
    /\ UNCHANGED dataVars

\* SyncMailThread.run: the next subprocess.run returns; after the last one
\* run() returns and the thread emits finished
SyncRun(i) ==
    /\ i \in DOMAIN syncs
    /\ syncs[i].pc = "run"
    /\ LET k == Len(syncs[i].log) + 1 IN
       syncs' = [syncs EXCEPT
                   ![i].log = Append(@, SyncMailThread_run[k]),
                   ![i].pc = IF k = Len(SyncMailThread_run) THEN "finished" ELSE "run"]
    /\ UNCHANGED <<tabs, cur, panels, panel_history, ncompose, init_queries, last,
                   threadVars, nav>>
    /\ procs' = IF SyncMailThread_run[Len(syncs[i].log) + 1] = "sync_mail_command"
                THEN Log(procs, "sync_mail_command", "SyncMailThread") ELSE procs
    /\ UNCHANGED <<search, keys, tm>>

\* sync_mail.done, run by the GUI thread for the thread's finished signal
SyncDone(i) ==
    /\ i \in DOMAIN syncs
    /\ syncs[i].pc = "finished"
    /\ syncs' = [syncs EXCEPT ![i].log = Append(@, "refresh_panels"), ![i].pc = "done"]
    /\ Handler("sync_mail.done", i, NoWidget, refresh_panels(GuiState))
    /\ UNCHANGED <<threadVars, nav>>
    /\ UNCHANGED dataVars

\* Dodo.__init__: a first sync is started unless sync_mail_interval is -1
SyncInit ==
    /\ InitGui(<<"q1">>)
    /\ InitThreads
    /\ nav = NavIdle
    /\ procs = ProcsOff
    /\ search = SearchIdle
    /\ keys = KeysIdle
    /\ tm = TmIdle
    /\ \E startup \in BOOLEAN :
        syncs = IF startup THEN sync_mail(<< >>) ELSE << >>

SyncNext ==
    \/ OpenSearch
    \/ NextPanel
    \/ SyncMail
    \/ \E i \in 1..MaxSyncs : SyncRun(i)
    \/ \E i \in 1..MaxSyncs : SyncDone(i)

\* a started thread is scheduled and its commands return; the event loop of
\* the GUI thread delivers a queued finished signal
SyncFairness ==
    \A i \in 1..MaxSyncs : WF_vars(SyncRun(i)) /\ WF_vars(SyncDone(i))

SyncSpec == SyncInit /\ [][SyncNext]_vars /\ SyncFairness

(***************************************************************************)
(* dodo.search: SearchModel.refresh and SearchPanel.refresh                *)
(***************************************************************************)
\* what 'notmuch search' may print: the thread ids of the rows, in order
SearchThreads == {"t1", "t2"}
Results == {<< >>, <<"t1">>, <<"t2">>, <<"t1", "t2">>, <<"t2", "t1">>}

\* {thread['thread']: i for i,thread in enumerate(self.d)}, rows counted from 0
thread_rows(d) ==
    [t \in {d[i] : i \in DOMAIN d} |->
        CHOOSE r \in 0..(Len(d) - 1) :
            /\ d[r + 1] = t
            /\ \A r2 \in 0..(Len(d) - 1) : d[r2 + 1] = t => r2 <= r]

\* SearchPanel.on_data_refresh, the slot of modelReset
on_data_refresh(m) ==
    [m EXCEPT !.error_view = IF m.error_msg = "None" THEN "hidden" ELSE "shown"]

\* SearchModel.refresh. outcome "ok": the command exits 0 and prints rows;
\* "CalledProcessError": check=True raises. The run has text=True, so
\* e.stderr is a str and e.stderr.decode() raises AttributeError inside the
\* except clause: the call leaves refresh before error_msg is assigned and
\* before endResetModel, so modelReset is never emitted.
SearchModel_refresh(m, outcome, rows) ==
    IF outcome = "ok"
    THEN on_data_refresh(
            [m EXCEPT !.d = rows,
                      !.error_msg = "None",
                      !.threads = thread_rows(rows),
                      !.num_threads = Len(rows),
                      !.in_reset = FALSE,
                      !.raised = FALSE])
    ELSE [m EXCEPT !.in_reset = TRUE, !.raised = TRUE]

\* SearchModel.thread_id of the row, "None" when there is no such row
thread_id(m, row) ==
    IF row >= 0 /\ row < Len(m.d) THEN m.d[row + 1] ELSE "None"

Min(a, b) == IF a < b THEN a ELSE b
Max(a, b) == IF a > b THEN a ELSE b

\* SearchPanel.restore_index; an index outside the model is invalid (row -1)
restore_index(m, id, fallback_row) ==
    LET r == IF id \in DOMAIN m.threads
             THEN m.threads[id]
             ELSE Max(0, Min(m.num_threads - 1, fallback_row))
    IN [m EXCEPT !.row = IF r < m.num_threads THEN r ELSE -1]

\* SearchPanel.refresh: snapshot_index, model.refresh, restore_index; when
\* model.refresh raises, the rest of the method is skipped
SearchPanel_refresh(m, outcome, rows) ==
    LET m1 == SearchModel_refresh(m, outcome, rows) IN
    IF m1.raised THEN m1 ELSE restore_index(m1, thread_id(m, m.row), m.row)

\* SearchPanel.__init__: the model is built, which refreshes it, and the
\* first row is made current
SearchStart(rows) ==
    [phase |-> "on", d |-> rows, threads |-> thread_rows(rows),
     num_threads |-> Len(rows), error_msg |-> "None", error_view |-> "hidden",
     row |-> IF Len(rows) > 0 THEN 0 ELSE -1,
     in_reset |-> FALSE, raised |-> FALSE,
     outcome |-> "ok", result |-> rows,
     before |-> [d |-> << >>, threads |-> thread_rows(<< >>)]]

\* the GUI thread refreshes the search panel of q1 (panel_focused on a dirty
\* panel, refresh_panels on the current one); Panel.refresh, which clears
\* dirty, is the last statement of SearchPanel.refresh
SearchPanelRefresh ==
    /\ InTabs(SearchId("q1"))
    /\ \E outcome \in {"ok", "CalledProcessError"} :
       \E rows \in IF outcome = "ok" THEN Results ELSE {<< >>} :
        LET m == SearchPanel_refresh(search, outcome, rows) IN
        /\ search' = [m EXCEPT !.outcome = outcome, !.result = rows,
                               !.before = [d |-> search.d, threads |-> search.threads]]
        /\ Handler("SearchPanel.refresh", None, SearchId("q1"),
                   IF m.raised THEN GuiState ELSE refresh(GuiState, SearchId("q1")))
    /\ procs' = Log(procs, "notmuch search", "GUI")
    /\ UNCHANGED <<threadVars, syncs, nav, keys, tm>>

\* Dodo.__init__ with init_queries = ['q1']: open_search builds the panel
\* and its model on the GUI thread; the first sync may have been started
SearchInit ==
    /\ InitGui(<<"q1">>)
    /\ InitThreads
    /\ nav = NavIdle
    /\ keys = KeysIdle
    /\ tm = TmIdle
    /\ \E startup \in BOOLEAN :
        syncs = IF startup THEN sync_mail(<< >>) ELSE << >>
    /\ \E rows \in Results : search = SearchStart(rows)
    /\ procs = [on |-> TRUE, calls |-> {<<"notmuch search", "GUI">>}]

SearchNext ==
    \/ SearchPanelRefresh
    \/ SyncMail
    \/ \E i \in 1..MaxSyncs : SyncRun(i)
    \/ \E i \in 1..MaxSyncs : SyncDone(i)
    \/ OpenCompose
    \/ \E n \in ComposeNums : Send(n)
    \/ \E n \in ComposeNums : SendmailRun(n)
    \/ \E n \in ComposeNums : SendDone(n)

SearchSpec == SearchInit /\ [][SearchNext]_vars

(***************************************************************************)
(* dodo.panel: key chords (Panel.set_keymap, Panel.keyPressEvent)          *)
(***************************************************************************)
\* A key string is the sequence of its characters, so that the slices taken
\* by set_keymap can be taken here. What util.key_string may return for a key
\* press: 'x', 'g', 't', 'j', 'C', 'C-d', or '' for a key it does not know.
KeyStrings ==
    {<<"x">>, <<"g">>, <<"t">>, <<"j">>, <<"C">>, <<"C", "-", "d">>, << >>}

\* keymap.global_keymap, cut down to 'x' (close panel) and the chord 't t' (tag)
global_keymap == {<<"x">>, <<"t", " ", "t">>}

\* local keymaps: chords next to a key that global_keymap binds too; a key
\* next to the same key with a modifier; a key that also starts a chord; none
LocalKeymaps ==
    { {<<"g", " ", "g">>, <<"x">>},
      {<<"j">>, <<"g", " ", "g">>, <<"C", "-", "d">>},
      {<<"C">>, <<"C", "-", "d">>},
      {<<"g">>, <<"g", " ", "g">>},
      {} }

\* Panel.set_keymap: k[0:-i] for i in range(1,len(k)), for every key string
\* of both keymaps
set_keymap(mp) ==
    UNION { {SubSeq(k, 1, Len(k) - i) : i \in 1..(Len(k) - 1)} :
            k \in global_keymap \cup mp }

KeyStart(mp) ==
    [phase |-> "on", keymap |-> mp, prefixes |-> set_keymap(mp),
     prefix |-> << >>, timer |-> FALSE,
     event |-> "init", cmd |-> << >>, fired |-> << >>]

\* a keyPressEvent that looks into global_keymap before the local keymap
keyPressEvent_global_first(ks, k) ==
    LET cmd == IF ks.prefix # << >> THEN ks.prefix \o <<" ">> \o k ELSE k IN
    IF k = << >> THEN [ks EXCEPT !.event = "keyPressEvent", !.cmd = << >>, !.fired = << >>]
    ELSE IF cmd \in ks.prefixes
    THEN [ks EXCEPT !.prefix = cmd, !.timer = TRUE,
                    !.event = "keyPressEvent", !.cmd = cmd, !.fired = << >>]
    ELSE [ks EXCEPT !.prefix = << >>, !.timer = FALSE,
                    !.event = "keyPressEvent", !.cmd = cmd,
                    !.fired = IF cmd \in global_keymap THEN << <<"global", cmd>> >>
                              ELSE IF cmd \in ks.keymap THEN << <<"local", cmd>> >>
                              ELSE << >>]

\* Panel.keyPressEvent for the key string k; fired lists the keymap entries
\* whose function the call invokes
keyPressEvent(ks, k) ==
    LET cmd == IF ks.prefix # << >> THEN ks.prefix \o <<" ">> \o k ELSE k IN
    IF k = << >> THEN [ks EXCEPT !.event = "keyPressEvent", !.cmd = << >>, !.fired = << >>]
    ELSE IF cmd \in ks.prefixes
    THEN [ks EXCEPT !.prefix = cmd, !.timer = TRUE,
                    !.event = "keyPressEvent", !.cmd = cmd, !.fired = << >>]
    ELSE IF ks.keymap # {} /\ cmd \in ks.keymap
    THEN [ks EXCEPT !.prefix = << >>, !.timer = FALSE,
                    !.event = "keyPressEvent", !.cmd = cmd,
                    !.fired = << <<"local", cmd>> >>]
    ELSE IF cmd \in global_keymap
    THEN [ks EXCEPT !.prefix = << >>, !.timer = FALSE,
                    !.event = "keyPressEvent", !.cmd = cmd,
                    !.fired = << <<"global", cmd>> >>]
    ELSE [ks EXCEPT !.prefix = << >>, !.timer = FALSE,
                    !.event = "keyPressEvent", !.cmd = cmd, !.fired = << >>]

\* prefix_timeout, the slot of the chord timer
prefix_timeout(ks) ==
    [ks EXCEPT !.prefix = << >>, !.timer = FALSE,
               !.event = "prefix_timeout", !.cmd = ks.prefix,
               !.fired = IF ks.keymap # {} /\ ks.prefix \in ks.keymap
                         THEN << <<"local", ks.prefix>> >>
                         ELSE IF ks.prefix \in global_keymap
                         THEN << <<"global", ks.prefix>> >>
                         ELSE << >>]

keysFrame ==
    UNCHANGED <<tabs, cur, panels, panel_history, ncompose, init_queries, last,
                threadVars, syncs, nav, procs, search, tm>>

KeyPress ==
    /\ \E k \in KeyStrings : keys' = keyPressEvent(keys, k)
    /\ keysFrame

PrefixTimeout ==
    /\ keys.timer
    /\ keys' = prefix_timeout(keys)
    /\ keysFrame

\* a panel whose __init__ has called set_keymap
KeyInit ==
    /\ InitGui(<<"q1">>)
    /\ InitThreads
    /\ syncs = << >>
    /\ nav = NavIdle
    /\ procs = ProcsOff
    /\ search = SearchIdle
    /\ tm = TmIdle
    /\ \E mp \in LocalKeymaps : keys = KeyStart(mp)

KeyNext ==
    \/ KeyPress
    \/ PrefixTimeout

KeySpec == KeyInit /\ [][KeyNext]_vars

(***************************************************************************)
(* dodo.thread: the thread model and the thread panel's list               *)
(***************************************************************************)
\* largest number of messages in a thread
MaxMsgs == 3

\* Message ids are 1..n, numbered in the order of the output of notmuch show;
\* par[i] is the message i replies to, 0 for a message at the top level.
RECURSIVE ReplyChain(_, _)
ReplyChain(par, i) ==
    IF i <= 0 \/ par[i] >= i THEN {0} ELSE {i} \cup ReplyChain(par, par[i])

\* the reply structures of a thread of n messages
Shapes(n) ==
    {par \in [1..n -> 0..(n - 1)] :
        \A i \in 1..n : /\ par[i] < i
                        /\ i > 1 => par[i] \in ReplyChain(par, i - 1)}

\* the k-th smallest element of a set of numbers
Nth(S, k) == CHOOSE i \in S : Cardinality({j \in S : j < i}) = k - 1

\* ThreadModel._fetch_full_thread: the forest [[msg, [replies]], ...], a
\* message being named by its id here and its content kept in msgs
RECURSIVE Forest(_, _, _)
Forest(par, n, p) ==
    LET kids == {i \in 1..n : par[i] = p} IN
    [k \in 1..Cardinality(kids) |-> <<Nth(kids, k), Forest(par, n, Nth(kids, k))>>]

\* the timestamps of the messages: rising in the order of the output, or
\* falling
TimeOrders == {"rising", "falling"}

Timestamp(order, n, i) ==
    IF order = "rising" THEN i ELSE n + 1 - i

\* the message dicts of a thread, by id
Messages(n, order, unread) ==
    [i \in 1..n |-> [id |-> i, timestamp |-> Timestamp(order, n, i),
                     unread |-> i \in unread]]

\* flatten, on a forest
RECURSIVE flatten(_)
flatten(collection) ==
    IF collection = << >> THEN << >>
    ELSE <<collection[1][1]>> \o flatten(collection[1][2]) \o flatten(Tail(collection))

\* list.sort(key=timestamp) is stable: a message goes behind the messages
\* that are not later than it
sort_insert(s, m, msgs) ==
    LET k == Cardinality({i \in 1..Len(s) : msgs[s[i]].timestamp <= msgs[m].timestamp}) IN
    SubSeq(s, 1, k) \o <<m>> \o SubSeq(s, k + 1, Len(s))

RECURSIVE sort_by_timestamp(_, _)
sort_by_timestamp(s, msgs) ==
    IF s = << >> THEN << >>
    ELSE sort_insert(sort_by_timestamp(SubSeq(s, 1, Len(s) - 1), msgs), s[Len(s)], msgs)

flat_thread(d, msgs) == sort_by_timestamp(flatten(d), msgs)

\* ThreadItem.__init__; parent is the id of the parent item's message
RECURSIVE ThreadItem(_, _)
ThreadItem(raw_data, parent) ==
    [msg |-> raw_data[1], parent |-> parent,
     children |-> [k \in 1..Len(raw_data[2]) |-> ThreadItem(raw_data[2][k], raw_data[1])]]

RECURSIVE has_multiple_children(_)
has_multiple_children(forest) ==
    IF forest = << >> THEN FALSE
    ELSE IF Len(forest) > 1 THEN TRUE
    ELSE has_multiple_children(forest[1][2])

\* a make_thread_trees that nests every thread
make_thread_trees_always_nested(raw_thread_data) ==
    [k \in 1..Len(raw_thread_data) |-> ThreadItem(raw_thread_data[k], None)]

make_thread_trees(raw_thread_data) ==
    IF has_multiple_children(raw_thread_data)
    THEN [k \in 1..Len(raw_thread_data) |-> ThreadItem(raw_thread_data[k], None)]
    ELSE [k \in 1..Len(flatten(raw_thread_data)) |->
             ThreadItem(<<flatten(raw_thread_data)[k], << >> >>, None)]

compute_roots(mode, raw_data, msgs) ==
    IF mode = "conversation"
    THEN [k \in 1..Len(flat_thread(raw_data, msgs)) |->
             ThreadItem(<<flat_thread(raw_data, msgs)[k], << >> >>, None)]
    ELSE make_thread_trees(raw_data)

\* ThreadModel.iterate_indices: the items in topological order
RECURSIVE iterate_indices(_)
iterate_indices(roots) ==
    IF roots = << >> THEN << >>
    ELSE <<roots[1]>> \o iterate_indices(roots[1].children) \o iterate_indices(Tail(roots))

\* ThreadModel.find; an index is named by the id of its item's message, the
\* invalid index is None
find(t, msg_id) ==
    LET idxs == iterate_indices(t.roots)
        hits == {k \in 1..Len(idxs) : idxs[k].msg = msg_id} IN
    IF hits = {} THEN None ELSE idxs[Nth(hits, 1)].msg

\* ThreadModel.default_message. With no matching message get_last_msg_idx
\* is called on the invalid index; a thread is opened from a search that
\* matches one of its messages.
default_message(t) ==
    LET idxs == iterate_indices(t.roots)
        hits == {k \in 1..Len(idxs) : idxs[k].msg \in t.matches} IN
    IF hits = {} THEN None ELSE idxs[Nth(hits, 1)].msg

\* ThreadModel.default_collapsed: what prune_irrelevant_branches returns ...
RECURSIVE has_relevant(_, _)
has_relevant(node, matches) ==
    \/ node.msg \in matches
    \/ \E k \in 1..Len(node.children) : has_relevant(node.children[k], matches)

\* ... and what it adds to irrelevant_branches
RECURSIVE prune_irrelevant_branches(_, _)
prune_irrelevant_branches(node, matches) ==
    IF node.msg \in matches THEN {}
    ELSE UNION {prune_irrelevant_branches(node.children[k], matches) :
                    k \in 1..Len(node.children)}
         \cup (IF has_relevant(node, matches) THEN {} ELSE {node.msg})

\* a default_collapsed that leaves a node's later children alone once one of
\* its children is relevant
RECURSIVE prune_until_relevant(_, _)
prune_until_relevant(node, matches) ==
    IF node.msg \in matches THEN {}
    ELSE UNION {prune_until_relevant(node.children[k], matches) :
                    k \in {j \in 1..Len(node.children) :
                             \A i \in 1..(j - 1) : ~has_relevant(node.children[i], matches)}}
         \cup (IF has_relevant(node, matches) THEN {} ELSE {node.msg})

default_collapsed_until_relevant(roots, matches) ==
    UNION {prune_until_relevant(roots[k], matches) : k \in 1..Len(roots)}

default_collapsed(roots, matches) ==
    UNION {prune_irrelevant_branches(roots[k], matches) : k \in 1..Len(roots)}

\* a refresh_message that puts the fetched tags into every message
refresh_message_into_all(t, msg_id, msg, matches) ==
    IF find(t, msg_id) = None THEN t
    ELSE [t EXCEPT !.msgs = [i \in DOMAIN t.msgs |-> [msg EXCEPT !.id = i]],
                   !.matches = matches]

\* ThreadModel.refresh_message: msg is the message that notmuch show returns
\* for id:msg_id, matches what _fetch_matching_ids returns
refresh_message(t, msg_id, msg, matches) ==
    IF find(t, msg_id) = None THEN t
    ELSE [t EXCEPT !.msgs[msg_id] = msg, !.matches = matches]

\* ThreadPanel.update_thread for this panel's thread
ThreadPanel_update_thread(t, msg_id, msg, matches) ==
    IF msg_id # None /\ find(t, msg_id) # None
    THEN refresh_message(t, msg_id, msg, matches)
    ELSE [t EXCEPT !.dirty = TRUE]

\* ThreadPanel._select_index. mark_as_read tags an unread message, and
\* messageChanged brings update_single_thread and so update_thread; matches is
\* what _fetch_matching_ids returns then.
select_index(t, index, matches) ==
    IF index = None THEN t
    ELSE IF t.msgs[index].unread
    THEN ThreadPanel_update_thread([t EXCEPT !.current = index], index,
                                   [t.msgs[index] EXCEPT !.unread = FALSE], matches)
    ELSE [t EXCEPT !.current = index]

\* ThreadPanel._prepare_reset; _get_collapsed reads the view, which shows
\* collapsed what _restore_collapsed set last
prepare_reset(t) ==
    IF t.current # None
    THEN [t EXCEPT !.saved_msg = t.current, !.saved_collapsed = <<t.collapsed>>]
    ELSE t

\* ThreadPanel._do_reset, after the view has dropped its current index
do_reset(t, matches) ==
    LET idx == IF t.saved_msg # None THEN find(t, t.saved_msg) ELSE None
        t1 == [t EXCEPT !.saved_msg = None, !.current = None]
        t2 == IF idx # None THEN select_index(t1, idx, matches)
              ELSE select_index(t1, default_message(t1), matches) IN
    [t2 EXCEPT !.collapsed = IF t2.saved_collapsed = << >>
                             THEN default_collapsed(t2.roots, t2.matches)
                             ELSE t2.saved_collapsed[1],
               !.saved_collapsed = << >>]

OtherMode(mode) == IF mode = "conversation" THEN "thread" ELSE "conversation"

\* a toggle_mode that computes the roots before it changes the mode
toggle_mode_roots_first(t) ==
    [t EXCEPT !.roots = compute_roots(t.mode, t.raw_data, t.msgs),
              !.mode = OtherMode(t.mode)]

\* ThreadModel.toggle_mode, between beginResetModel and endResetModel
toggle_mode(t) ==
    [t EXCEPT !.mode = OtherMode(t.mode),
              !.roots = compute_roots(OtherMode(t.mode), t.raw_data, t.msgs)]

\* ThreadPanel.toggle_list_mode with the slots of the two reset signals
toggle_list_mode(t, matches) ==
    do_reset(toggle_mode(prepare_reset(t)), matches)

\* ThreadModel.refresh between the same slots; data and msgs are what notmuch
\* show returns, matches what notmuch search returns
ThreadPanel_refresh(t, data, msgs, matches, later_matches) ==
    LET t1 == prepare_reset([t EXCEPT !.dirty = FALSE]) IN
    do_reset([t1 EXCEPT !.raw_data = data, !.msgs = msgs,
                        !.roots = compute_roots(t.mode, data, msgs),
                        !.matches = matches], later_matches)

\* ThreadPanel.__init__ and ThreadModel.__init__
ThreadStart(mode) ==
    [phase |-> "on", event |-> "init", mode |-> mode, raw_data |-> << >>,
     msgs |-> << >>, roots |-> << >>, matches |-> {}, current |-> None,
     collapsed |-> {}, saved_msg |-> None, saved_collapsed |-> << >>,
     dirty |-> TRUE]

Ids(t) == DOMAIN t.msgs

tmFrame ==
    UNCHANGED <<tabs, cur, panels, panel_history, ncompose, init_queries, last,
                threadVars, syncs, nav, procs, search, keys>>

\* what _fetch_matching_ids may return after message msg_id was tagged: the
\* message may have dropped out of the matches of the query, or come in
FetchedMatches(matches, msg_id) ==
    {matches, matches \ {msg_id}, matches \cup {msg_id}}

\* refresh_panels or panel_focused on the thread panel; notmuch show returns
\* the thread as before, and the query matches as before or every message
ThreadPanelRefresh ==
    /\ \E mt \in {tm.matches, Ids(tm)} :
       \E fm \in {mt, mt \ {tm.current}} :
          tm' = [ThreadPanel_refresh(tm, tm.raw_data, tm.msgs, mt, fm)
                    EXCEPT !.event = "refresh"]
    /\ tmFrame

ToggleListMode ==
    /\ \E fm \in {tm.matches, tm.matches \ {tm.current}} :
          tm' = [toggle_list_mode(tm, fm) EXCEPT !.event = "toggle_list_mode"]
    /\ tmFrame

\* update_single_thread after tag_message has tagged the current message
UpdateThread ==
    /\ tm.current # None
    /\ \E u \in BOOLEAN, mt \in FetchedMatches(tm.matches, tm.current) :
          tm' = [ThreadPanel_update_thread(tm, tm.current,
                                           [tm.msgs[tm.current] EXCEPT !.unread = u], mt)
                    EXCEPT !.event = "update_thread"]
    /\ tmFrame

\* a thread panel opened from a search, after its first refresh; the messages
\* are all read or all unread
ThreadInit ==
    /\ InitGui(<<"q1">>)
    /\ InitThreads
    /\ syncs = << >>
    /\ nav = NavIdle
    /\ procs = ProcsOff
    /\ search = SearchIdle
    /\ keys = KeysIdle
    /\ \E n \in 1..MaxMsgs :
       \E par \in Shapes(n), order \in TimeOrders, unread \in {{}, 1..n},
          mt \in SUBSET (1..n) \ {{}}, drop \in BOOLEAN,
          mode \in {"conversation", "thread"} :
          LET t == ThreadStart(mode)
              data == Forest(par, n, 0)
              msgs == Messages(n, order, unread)
              first == default_message([t EXCEPT !.roots = compute_roots(mode, data, msgs),
                                                 !.matches = mt]) IN
          tm = [ThreadPanel_refresh(t, data, msgs, mt,
                                    IF drop THEN mt \ {first} ELSE mt)
                   EXCEPT !.event = "refresh"]

ThreadNext ==
    \/ ThreadPanelRefresh
    \/ ToggleListMode
    \/ UpdateThread

ThreadSpec == ThreadInit /\ [][ThreadNext]_vars

(***************************************************************************)
(* Properties of the compose panel's threads                               *)
(***************************************************************************)
\* the step is a call of edit or send on compose panel n: the calls record
\* themselves in last, which the steps of the threads leave alone
IsCall(op, n) ==
    /\ last' # last
    /\ last'.op = op
    /\ last'.index = n

OneThread ==
    \A n \in ComposeNums :
        /\ et[n].threads <= 1
        /\ sm[n].threads <= 1
        /\ editor_thread[n] <=> et[n].threads = 1
        /\ sendmail_thread[n] <=> sm[n].threads = 1

\* C7: a compose panel never has more than one EditorThread and never more
\* than one SendmailThread; edit() called while the panel's editor thread
\* exists and send() called while its send thread exists start nothing and
\* leave the threads as they are; edit() and send() called when the panel
\* has no such thread, also after an earlier one finished and its done
\* callback ran, start one.
C7_OneThreadPerPanel ==
    /\ []OneThread
    /\ [][\A n \in ComposeNums :
            /\ IsCall("edit", n) /\ editor_thread[n] =>
                   UNCHANGED <<editor_thread, et>>
            /\ IsCall("send", n) /\ sendmail_thread[n] =>
                   UNCHANGED <<sendmail_thread, sm>>
            /\ IsCall("edit", n) /\ ~editor_thread[n] =>
                   editor_thread'[n] /\ et'[n].pc = "start" /\ et'[n].threads = 1
            /\ IsCall("send", n) /\ ~sendmail_thread[n] =>
                   sendmail_thread'[n] /\ sm'[n].pc = "running" /\ sm'[n].threads = 1
       ]_vars

\* edit() has been called while the panel's editor thread was still there
\* and the thread is the only one
C7_Witness ==
    \E n \in ComposeNums :
        /\ last.op = "edit" /\ last.index = n /\ last.existed
        /\ editor_thread[n] /\ et[n].threads = 1

\* C8: whenever the 'Compose panel closed while editing, email text saved in'
\* message has been shown for a temp file, the EditorThread has not removed
\* that file.
C8_SavedFileExists ==
    \A n \in ComposeNums : et[n].shown => et[n].file = "exists"

Finished(s) == s.pc \in {"finished", "done"}

Statuses == {"sent", "error", "timed out", "exception"}

\* C9 as stated: status is 'sending' while the thread runs; once it has
\* finished the status is one of the four outcomes, 'sent' only after exit 0,
\* 'error' only after a non-zero exit, 'timed out' only after the timeout;
\* the sent maildir, notmuch new and the +replied tag happen only in the
\* 'sent' case.
C9_EffectsOnlyWhenSent ==
    \A n \in ComposeNums :
        /\ sm[n].pc = "running" => sm[n].status = "sending"
        /\ Finished(sm[n]) => sm[n].status \in Statuses
        /\ sm[n].pc = "finished" =>
              /\ sm[n].status = "sent" => sm[n].exit = "zero"
              /\ sm[n].status = "error" <=> sm[n].exit = "nonzero"
              /\ sm[n].status = "timed out" <=> sm[n].exit = "timeout"
              /\ (sm[n].in_sent_dir \/ sm[n].notmuch_new \/ sm[n].replied)
                    => sm[n].status = "sent"

\* C9 amended: as above, but the sent maildir, notmuch new and the +replied
\* tag happen only after send_mail_command exited 0, with the status ending
\* as 'sent' or, when a later step raised, as 'exception'; with status 'sent'
\* notmuch new has run.
C9_EffectsOnlyAfterExitZero ==
    \A n \in ComposeNums :
        /\ sm[n].pc = "running" => sm[n].status = "sending"
        /\ Finished(sm[n]) => sm[n].status \in Statuses
        /\ sm[n].pc = "finished" =>
              /\ sm[n].status = "sent" => sm[n].exit = "zero" /\ sm[n].notmuch_new
              /\ sm[n].status = "error" <=> sm[n].exit = "nonzero"
              /\ sm[n].status = "timed out" <=> sm[n].exit = "timeout"
              /\ (sm[n].in_sent_dir \/ sm[n].notmuch_new \/ sm[n].replied)
                    => sm[n].exit = "zero" /\ sm[n].status \in {"sent", "exception"}
              /\ sm[n].replied => sm[n].status = "sent"

\* a send whose command exited 0 and whose message reached the sent maildir
\* ended with status 'exception'
C9_Witness ==
    \E n \in ComposeNums :
        /\ sm[n].pc = "finished"
        /\ sm[n].status = "exception"
        /\ sm[n].exit = "zero"
        /\ sm[n].in_sent_dir

(***************************************************************************)
(* Properties of sync_mail                                                 *)
(***************************************************************************)
SyncEvents == <<"sync_mail_command", "notmuch new", "refresh_panels">>

SyncInOrder ==
    \A i \in DOMAIN syncs :
        /\ Len(syncs[i].log) <= Len(SyncEvents)
        /\ syncs[i].log = SubSeq(SyncEvents, 1, Len(syncs[i].log))

\* C10: in every sync, notmuch new finishes its run only after
\* sync_mail_command has returned and refresh_panels is called only after
\* notmuch new has returned, never more than once; and every sync that was
\* started, also one that overlaps another, reaches its one refresh_panels.
C10_SyncThenRefresh ==
    /\ []SyncInOrder
    /\ \A i \in 1..MaxSyncs :
          (i \in DOMAIN syncs) ~> (i \in DOMAIN syncs /\ syncs[i].log = SyncEvents)

\* two syncs overlapped: the later one has made its refresh_panels call
\* while the earlier one is still running
C10_Witness ==
    /\ Len(syncs) >= 2
    /\ syncs[2].log = SyncEvents
    /\ syncs[1].pc = "run"
    /\ last.op = "sync_mail.done" /\ last.index = 2

(***************************************************************************)
(* Properties of the external commands and of the search model             *)
(***************************************************************************)
BlockingCommands == {"notmuch search", "sync_mail_command", "send_mail_command"}

\* C11: the 'notmuch search' of a search refresh, sync_mail_command and
\* send_mail_command are never run by the GUI thread.
C11_GuiThreadRunsNoCommand ==
    \A c \in procs.calls : c[1] \in BlockingCommands => c[2] # "GUI"

\* C14: after a refresh in which 'notmuch search' failed, the rows, their
\* order and the thread-to-row map are those from before, error_msg is set
\* and the error label is shown; after a refresh that succeeded the rows are
\* the new results, error_msg is None and the label is hidden.
C14_FailedRefreshShowsError ==
    search.phase = "on" =>
        /\ search.outcome = "CalledProcessError" =>
              /\ search.d = search.before.d
              /\ search.threads = search.before.threads
              /\ search.error_msg # "None"
              /\ search.error_view = "shown"
        /\ search.outcome = "ok" =>
              /\ search.d = search.result
              /\ search.error_msg = "None"
              /\ search.error_view = "hidden"

RECURSIVE Entries(_)
Entries(forest) ==
    UNION {{forest[k]} \cup Entries(forest[k][2]) : k \in 1..Len(forest)}

\* the ids of the replies to a message, in the order of the input
Replies(forest, msg_id) ==
    LET e == CHOOSE x \in Entries(forest) : x[1] = msg_id IN
    [k \in 1..Len(e[2]) |-> e[2][k][1]]

\* no more than one message at the top level and one reply to any message
Linear(forest) ==
    /\ Len(forest) <= 1
    /\ \A e \in Entries(forest) : Len(e[2]) <= 1

\* the ids of the messages of a sequence of items
MsgsOf(items) == [k \in 1..Len(items) |-> items[k].msg]

\* the ids of the messages that the list reaches from its roots
Reachable(roots) == {iterate_indices(roots)[k].msg : k \in 1..Len(iterate_indices(roots))}

\* C13: make_thread_trees gives, for a linear thread, every message as a root
\* without children, each root followed by its reply; for any other thread
\* the top-level messages as roots in input order, the children of every item
\* being its message's replies in input order with the item as their parent;
\* and every message is listed exactly once. The roots of a model in 'thread'
\* mode are these.
C13_ThreadTrees ==
    tm.phase = "on" =>
      LET raw == tm.raw_data
          roots == make_thread_trees(raw)
          items == iterate_indices(roots) IN
      /\ tm.mode = "thread" => tm.roots = roots
      /\ Len(items) = Cardinality(Ids(tm))
      /\ {items[k].msg : k \in 1..Len(items)} = Ids(tm)
      /\ \A k \in 1..Len(roots) : roots[k].parent = None
      /\ IF Linear(raw)
         THEN /\ Len(roots) = Cardinality(Ids(tm))
              /\ \A k \in 1..Len(roots) : roots[k].children = << >>
              /\ Len(roots) > 0 => roots[1].msg = raw[1][1]
              /\ \A k \in 1..(Len(roots) - 1) :
                    Replies(raw, roots[k].msg) = <<roots[k + 1].msg>>
         ELSE /\ MsgsOf(roots) = [k \in 1..Len(raw) |-> raw[k][1]]
              /\ \A k \in 1..Len(items) :
                    /\ MsgsOf(items[k].children) = Replies(raw, items[k].msg)
                    /\ \A c \in 1..Len(items[k].children) :
                          items[k].children[c].parent = items[k].msg

\* a thread with two top-level messages, one of them with a reply, toggled
\* into 'thread' mode
C13_Witness ==
    /\ tm.phase = "on"
    /\ tm.event = "toggle_list_mode"
    /\ tm.mode = "thread"
    /\ Len(tm.roots) = 2
    /\ \E k \in 1..2 : Len(tm.roots[k].children) = 1

\* C15: toggle_list_mode changes the mode and keeps the set of reachable
\* messages; the message that was selected is selected afterwards; and a
\* second toggle gives the first mode and the first roots, in order.
C15_ToggleKeepsThread ==
    tm.phase = "on" =>
      \A fm \in {tm.matches, tm.matches \ {tm.current}} :
        LET once == toggle_list_mode(tm, fm)
            twice == toggle_list_mode(once, once.matches) IN
        /\ once.mode = OtherMode(tm.mode)
        /\ Reachable(once.roots) = Reachable(tm.roots)
        /\ tm.current # None => once.current = tm.current
        /\ twice.mode = tm.mode
        /\ twice.roots = tm.roots

\* a reply is selected in a nested list that a toggle has made from a
\* conversation in another order
C15_Witness ==
    /\ tm.phase = "on"
    /\ tm.event = "toggle_list_mode"
    /\ tm.mode = "thread"
    /\ tm.current # None
    /\ \E k \in 1..Len(tm.roots) :
          \E c \in 1..Len(tm.roots[k].children) : tm.roots[k].children[c].msg = tm.current
    /\ MsgsOf(compute_roots("conversation", tm.raw_data, tm.msgs)) # flatten(tm.raw_data)

\* the items above an item of the list
RECURSIVE AncestorsOf(_, _)
AncestorsOf(items, item) ==
    IF item.parent = None THEN {}
    ELSE LET p == CHOOSE x \in items : x.msg = item.parent IN
         {p.msg} \cup AncestorsOf(items, p)

ItemsOf(roots) == {iterate_indices(roots)[k] : k \in 1..Len(iterate_indices(roots))}

\* C16: default_collapsed holds no matching message and no message above a
\* matching message in the list, and holds every message that does not match
\* and has no matching message above or below it in the list.
C16_DefaultCollapsed ==
    tm.phase = "on" =>
      LET items == ItemsOf(tm.roots)
          collapsed == default_collapsed(tm.roots, tm.matches) IN
      \A it \in items :
        LET above == AncestorsOf(items, it)
            below == {x.msg : x \in {y \in items : it.msg \in AncestorsOf(items, y)}} IN
        /\ it.msg \in tm.matches => it.msg \notin collapsed
        /\ below \cap tm.matches # {} => it.msg \notin collapsed
        /\ (/\ it.msg \notin tm.matches
            /\ above \cap tm.matches = {}
            /\ below \cap tm.matches = {}) => it.msg \in collapsed

\* the first refresh of a nested list has collapsed a reply next to a matching
\* reply to the same message, and not their parent
C16_Witness ==
    /\ tm.phase = "on"
    /\ tm.mode = "thread"
    /\ tm.event = "refresh"
    /\ \E it \in ItemsOf(tm.roots) :
          /\ Len(it.children) = 2
          /\ it.msg \notin tm.matches
          /\ it.msg \notin tm.collapsed
          /\ it.children[1].msg \in tm.matches
          /\ it.children[2].msg \in tm.collapsed

\* C17: refresh_message changes the content of the message with the given id
\* and the set of matching ids, and leaves the fetched thread, the roots with
\* every item's parent and children and their order, the content of every
\* other message and the list mode as they are.
C17_RefreshMessageFrame ==
    tm.phase = "on" =>
      \A msg_id \in Ids(tm), u \in BOOLEAN :
        \A mt \in FetchedMatches(tm.matches, msg_id) :
          LET msg == [tm.msgs[msg_id] EXCEPT !.unread = u]
              t == refresh_message(tm, msg_id, msg, mt) IN
          /\ t.msgs[msg_id] = msg
          /\ t.matches = mt
          /\ t.roots = tm.roots
          /\ t.raw_data = tm.raw_data
          /\ t.mode = tm.mode
          /\ \A other \in Ids(tm) \ {msg_id} : t.msgs[other] = tm.msgs[other]

\* update_thread has refreshed the selected message of a thread of several
\* messages: it is unread now and has dropped out of the matches
C17_Witness ==
    /\ tm.phase = "on"
    /\ tm.event = "update_thread"
    /\ Cardinality(Ids(tm)) > 1
    /\ tm.current # None
    /\ tm.msgs[tm.current].unread
    /\ tm.current \notin tm.matches
    /\ \E other \in Ids(tm) : other # tm.current /\ ~tm.msgs[other].unread

(***************************************************************************)
(* Properties of the tab bar                                               *)
(***************************************************************************)
\* C1: every search panel opened at startup for settings.init_queries
\* (keep_open=True) is still in the tab bar, with keep_open still True,
\* whatever panels have been opened and closed since.
C1_InitQueriesStayOpen ==
    \A i \in 1..Len(init_queries) :
        init_queries[i] # "" =>
            /\ InTabs(SearchId(init_queries[i]))
            /\ panels[SearchId(init_queries[i])].keep_open

\* close_panel has just been called on a startup search panel, which is still there
C1_Witness ==
    /\ last.op = "close_panel"
    /\ last.index >= 1
    /\ \E i \in 1..Len(init_queries) :
           widget(GuiState, last.index) = SearchId(init_queries[i])

\* C2 (as claimed): close_panel(index) with an index closes the panel at
\* exactly that index when its keep_open is False, whichever tab is current;
\* close_panel() closes the current panel; and after 'close all' no panel
\* with keep_open False is left.
C2_ClosesGivenIndex ==
    [][/\ (/\ last'.op = "close_panel"
           /\ last'.index # None
           /\ widget(GuiState, last'.index) # NoWidget
           /\ ~panels[widget(GuiState, last'.index)].keep_open)
          => tabs' = RemoveAt(tabs, last'.index)
       /\ (/\ last'.op = "close_panel"
           /\ last'.index = None
           /\ currentWidget(GuiState) # NoWidget
           /\ ~panels[currentWidget(GuiState)].keep_open)
          => tabs' = RemoveAt(tabs, cur)
       /\ last'.op = "close_all"
          => \A i \in 1..Len(tabs') : panels'[tabs'[i]].keep_open]_vars

NoDuplicates == \A i, j \in 1..Len(tabs) : i # j => tabs[i] # tabs[j]

\* C3: the tab bar never holds two panels for the same query, the same
\* thread id, or two tag panels; opening a key that is already open leaves
\* the tabs as they are and makes the existing panel the current tab.
C3_NoDuplicatePanels ==
    /\ []NoDuplicates
    /\ [][(/\ last'.op \in {"open_search", "open_thread", "open_tags"}
            /\ InTabs(last'.key))
           => /\ tabs' = tabs
              /\ cur' = indexOf(GuiState, last'.key)]_vars

\* an open_thread for a thread that was already open, now the current tab
C3_Witness ==
    /\ last.op = "open_thread"
    /\ last.existed
    /\ tabs[cur + 1] = last.key
    /\ Len(tabs) > 1

LOCAL_PROTOCOLS == {"cid", "message"}
Schemes == {"cid", "message", "http", "https", "mailto", "file"}
Hosts == {"good.example", "evil.example"}
\* QWebEnginePage.NavigationType
NavigationTypes == {"LinkClicked", "Typed", "FormSubmitted", "BackForward",
                    "Reload", "Redirect", "Other"}
\* settings.html_confirm_open_links_trusted_hosts as a config may set it
TrustedHostLists == {{}, {"good.example"}}
Answers == {"Yes", "No"}

\* what one call does: the value it returns and what it starts on the way.
\* cfg: the settings; answer: what the user answers if the dialog is shown
acceptNavigationRequest_without_confirmation(cfg, scheme, host, ty, answer) ==
    [accept |-> scheme \in LOCAL_PROTOCOLS, dialog |-> FALSE,
     browser |-> scheme \notin LOCAL_PROTOCOLS \cup {"mailto"} /\ ty = "LinkClicked",
     compose |-> scheme = "mailto" /\ ty = "LinkClicked"]

acceptNavigationRequest(cfg, scheme, host, ty, answer) ==
    IF scheme \in LOCAL_PROTOCOLS
    THEN [accept |-> TRUE, dialog |-> FALSE, browser |-> FALSE, compose |-> FALSE]
    ELSE IF ty = "LinkClicked"
    THEN IF scheme = "mailto"
         THEN [accept |-> FALSE, dialog |-> FALSE, browser |-> FALSE, compose |-> TRUE]
         ELSE LET asks == cfg.html_confirm_open_links /\ host \notin cfg.trusted_hosts
                  opens == \/ ~cfg.html_confirm_open_links
                           \/ host \in cfg.trusted_hosts
                           \/ answer = "Yes"
              IN  [accept |-> FALSE, dialog |-> asks, browser |-> opens, compose |-> FALSE]
    ELSE IF ty = "Redirect"
    THEN [accept |-> FALSE, dialog |-> FALSE, browser |-> FALSE, compose |-> FALSE]
    ELSE [accept |-> cfg.html_block_remote_requests, dialog |-> FALSE,
          browser |-> FALSE, compose |-> FALSE]

\* info.block(...) is called only for a non-local scheme; a request is not
\* blocked unless block(True) is called
interceptRequest(cfg, scheme) ==
    IF scheme \notin LOCAL_PROTOCOLS THEN cfg.html_block_remote_requests ELSE FALSE

Configs == [html_block_remote_requests : BOOLEAN,
            html_confirm_open_links : BOOLEAN,
            trusted_hosts : TrustedHostLists]

NavStart(cfg) == [phase |-> "idle", cfg |-> cfg]

NavInit ==
    /\ InitGui(<<"q1">>)
    /\ InitThreads
    /\ syncs = << >>
    /\ \E cfg \in Configs : nav = NavStart(cfg)
    /\ procs = ProcsOff
    /\ search = SearchIdle
    /\ keys = KeysIdle
    /\ tm = TmIdle

\* the page asks whether it may navigate to a URL
AcceptNavigationRequest ==
    /\ nav.phase # "off"
    /\ \E scheme \in Schemes, host \in Hosts, ty \in NavigationTypes, answer \in Answers :
        LET r == acceptNavigationRequest(nav.cfg, scheme, host, ty, answer) IN
        /\ r.dialog \/ answer = "No"
        /\ r.compose => ncompose < MaxCompose /\ Len(tabs) < MaxTabs
        /\ nav' = [phase |-> "navigation", cfg |-> nav.cfg, scheme |-> scheme,
                   host |-> host, ty |-> ty, answer |-> answer,
                   accept |-> r.accept, dialog |-> r.dialog, browser |-> r.browser,
                   blocked |-> FALSE]
        /\ IF r.compose
           THEN Handler("open_compose", None, ComposeId(ncompose + 1), open_compose(GuiState))
           ELSE UNCHANGED <<tabs, cur, panels, panel_history, ncompose, init_queries, last>>
    /\ UNCHANGED <<threadVars, syncs>>
    /\ UNCHANGED dataVars

\* the profile's interceptor sees a request the page makes
InterceptRequest ==
    /\ nav.phase # "off"
    /\ \E scheme \in Schemes, host \in Hosts :
        nav' = [phase |-> "request", cfg |-> nav.cfg, scheme |-> scheme,
                host |-> host, ty |-> "Other", answer |-> "No",
                accept |-> FALSE, dialog |-> FALSE, browser |-> FALSE,
                blocked |-> interceptRequest(nav.cfg, scheme)]
    /\ UNCHANGED <<tabs, cur, panels, panel_history, ncompose, init_queries, last>>
    /\ UNCHANGED <<threadVars, syncs>>
    /\ UNCHANGED dataVars

NavNext ==
    \/ AcceptNavigationRequest
    \/ InterceptRequest

NavSpec == NavInit /\ [][NavNext]_vars

\* C5 (as claimed): with html_block_remote_requests True, no request and no
\* navigation of any type to a URL whose scheme is not local is let through;
\* requests to 'cid' and 'message' URLs are never blocked.
C5_RemoteAlwaysRefused ==
    /\ (/\ nav.phase = "navigation"
        /\ nav.cfg.html_block_remote_requests
        /\ nav.scheme \notin LOCAL_PROTOCOLS) => ~nav.accept
    /\ (/\ nav.phase = "request"
        /\ nav.cfg.html_block_remote_requests
        /\ nav.scheme \notin LOCAL_PROTOCOLS) => nav.blocked
    /\ (nav.phase = "request" /\ nav.scheme \in LOCAL_PROTOCOLS) => ~nav.blocked

\* C6: a clicked link to a non-local, non-mailto URL reaches the browser only
\* if confirmation is off, the host is trusted, or the user answered Yes; a
\* trusted host is opened without a dialog; and for every clicked non-local
\* link (mailto and declined ones too) the view itself does not navigate.
C6_LinksConfirmedBeforeBrowser ==
    (/\ nav.phase = "navigation"
     /\ nav.ty = "LinkClicked"
     /\ nav.scheme \notin LOCAL_PROTOCOLS)
    => /\ ~nav.accept
       /\ nav.browser => /\ nav.scheme # "mailto"
                          /\ \/ ~nav.cfg.html_confirm_open_links
                             \/ nav.host \in nav.cfg.trusted_hosts
                             \/ nav.dialog /\ nav.answer = "Yes"
       /\ (nav.scheme # "mailto" /\ nav.host \in nav.cfg.trusted_hosts)
          => nav.browser /\ ~nav.dialog

\* a link to an untrusted host was clicked, the dialog was shown and declined
C6_Witness ==
    /\ nav.phase = "navigation"
    /\ nav.ty = "LinkClicked"
    /\ nav.scheme = "http"
    /\ nav.cfg.html_confirm_open_links
    /\ nav.host \notin nav.cfg.trusted_hosts
    /\ nav.dialog
    /\ nav.answer = "No"
    /\ ~nav.browser

====
